---- MODULE Spec2Model ----
(***************************************************************************)
(* zangetsu-data: the Database access base class                           *)
(* (src/zangetsu_data/common_database.py) with its template loader and     *)
(* schema introspection, its Postgresql / BigQuery variants and the        *)
(* GoogleSpreadsheet wrapper (src/zangetsu_data/spreadsheet.py).           *)
(*                                                                         *)
(* Three groups of methods, each with a specification of its own: Spec     *)
(* (connections, reads, statements, DDL), TemplateSpec (SQL template       *)
(* files and schemas) and SheetSpec (spreadsheets); LibrarySpec is all     *)
(* their runs together.                                                    *)
(*                                                                         *)
(* One action per public method.  A method runs to completion before the   *)
(* next one starts (the library is synchronous and single-threaded), so    *)
(* every action is the whole handler.  The backend (SQLAlchemy engine,     *)
(* pandas reader, Google Sheets service) is the environment: each backend  *)
(* call of a handler either succeeds or raises, chosen by \E.              *)
(*                                                                         *)
(* Backend assumptions (SQLAlchemy 2.x): a statement executed on a         *)
(* connection is pending until commit(); closing a connection or leaving   *)
(* a `with engine.connect()` / `with engine.begin()` block with pending    *)
(* work discards it; commit() is all-or-nothing; Connection.close() and    *)
(* Connection.rollback() on a live connection do not raise.  pandas'       *)
(* read_sql_query runs on a connection it takes from the engine itself.    *)
(***************************************************************************)
EXTENDS Integers, Sequences, FiniteSets, TLC

\* ------------------------------------------------------------------ bounds
MaxConnects == 2      \* engine.connect() calls made through Database.connect()
MaxQueries == 2       \* longest statement list handed to transaction_query
MaxDocs == 2          \* documents create_spreadsheet may create remotely

\* ------------------------------------------------------------- python values
None == 0             \* a connection handle is 1, 2, ...; None is 0
Truthy(handle) == handle # None

\* A `str | None` document id: None, or the string numbered `id`, 0 being "".
NoId == [isNone |-> TRUE, id |-> 0]
PyStr(n) == [isNone |-> FALSE, id |-> n]
\* `if not self.spreadsheet_id`: None and "" are both falsy.
TruthyId(v) == ~v.isNone /\ v.id # 0

Frame(cols, rows) == [kind |-> "frame", columns |-> cols, rows |-> rows]
EmptyFrame == Frame(<<>>, <<>>)
StatusFrame(status, message) ==
    Frame(<<"status", "message">>, << <<status, message>> >>)
Returns(kind, v) == [kind |-> kind, value |-> v]
Raises(exc) == [kind |-> "raise", exc |-> exc]
NoReturn == [kind |-> "nothing"]

\* ------------------------------------------------------------------ strings
\* A statement text is a sequence of one-character strings.
Whitespace == {" ", "\n", "\t"}

upper(c) ==
    CASE c = "s" -> "S" [] c = "e" -> "E" [] c = "l" -> "L"
      [] c = "c" -> "C" [] c = "t" -> "T" [] c = "i" -> "I"
      [] c = "n" -> "N" [] c = "o" -> "O" [] c = "w" -> "W"
      [] c = "h" -> "H" [] OTHER -> c

Upper(s) == [i \in 1..Len(s) |-> upper(s[i])]

RECURSIVE LStrip(_)
LStrip(s) ==
    IF s # <<>> /\ Head(s) \in Whitespace THEN LStrip(Tail(s)) ELSE s

RECURSIVE RStrip(_)
RStrip(s) ==
    IF s # <<>> /\ s[Len(s)] \in Whitespace
    THEN RStrip(SubSeq(s, 1, Len(s) - 1)) ELSE s

Strip(s) == RStrip(LStrip(s))

StartsWith(s, prefix) ==
    /\ Len(s) >= Len(prefix)
    /\ SubSeq(s, 1, Len(prefix)) = prefix

KwSelect == <<"S", "E", "L", "E", "C", "T">>

\* sql.strip().upper().startswith("SELECT")
IsSelect(text) == StartsWith(Upper(Strip(text)), KwSelect)

\* --------------------------------------------------------------- statements
\* What the backend does with a statement that executes: the change it makes
\* (NoEffect for a pure read), the rowcount it reports, and the rows it hands
\* back (returnsRows FALSE: the result is closed and fetchall() raises).
NoEffect == <<"none", "-">>
Stmt(text, effect, rowcount, returnsRows, keys, rows) ==
    [text |-> text, effect |-> effect, rowcount |-> rowcount,
     returnsRows |-> returnsRows, keys |-> keys, rows |-> rows]

SelectOne == Stmt(<<"S","E","L","E","C","T"," ","1">>, NoEffect, 1, TRUE,
                  <<"a">>, << <<1>> >>)
SelectLower == Stmt(<<" ","\n","s","e","l","e","c","t"," ","x"," ">>, NoEffect,
                    2, TRUE, <<"a", "b">>, << <<1, 2>>, <<3, 4>> >>)
SelectInto == Stmt(<<"S","e","L","e","C","t"," ","I","N","T","O">>,
                   <<"stmt", "into">>, 3, FALSE, <<>>, <<>>)
WithRead == Stmt(<<"W","I","T","H"," ","S","E","L","E","C","T">>, NoEffect,
                 0, TRUE, <<"a">>, << <<5>> >>)
InsertRow == Stmt(<<"I","N","S","E","R","T">>, <<"stmt", "insert">>, 1, FALSE,
                  <<>>, <<>>)
Statements == {SelectOne, SelectLower, SelectInto, WithRead, InsertRow}
\* The statements the model hands to transaction_query.
TxnStatements == {SelectInto, InsertRow}

Effects(stmt) == IF stmt.effect = NoEffect THEN {} ELSE {stmt.effect}

TableNames == {"users"}
ColumnSets == {<<>>, <<"id INT">>}

\* -------------------------------------------------------------------- state
VARIABLES
    variant,          \* the class constructed: Database, Postgresql or BigQuery
    connection,       \* Database.connection: None or the handle held
    openConns,        \* handles the engine has handed out and not yet closed
    engineConnects,   \* engine.connect() calls made by Database.connect()
    closeCalls,       \* Connection.close() calls made by Database.close()
    committed,        \* the statement effects visible in the database
    tables,           \* the tables that exist in the database
    peakLive,         \* most connections of this engine live at once in the last operation
    jinja_env,        \* Database.jinja_env: None, or the environment over sql_dir
    scope,            \* the group of methods the run exercises
    spreadsheet_id,   \* GoogleSpreadsheet.spreadsheet_id: the target document
    docs,             \* documents created remotely through this instance
    last,             \* the last operation: name, arguments, backend outcome, state before
    ret               \* what the last operation returned or raised

dbVars == <<variant, connection, openConns, engineConnects, closeCalls,
            committed, tables, peakLive, jinja_env>>
sheetVars == <<spreadsheet_id, docs>>
vars == <<dbVars, sheetVars, scope, last, ret>>

\* The Database fields and the backend, as one value the handlers transform.
Db == [connection |-> connection, openConns |-> openConns,
       engineConnects |-> engineConnects, closeCalls |-> closeCalls,
       committed |-> committed, tables |-> tables]

Variants == {"Database", "Postgresql", "BigQuery"}

\* self.jinja_env: the jinja2.Environment built when sql_dir exists, else None.
NoEnvironment == "None"
Environment == "jinja2.Environment"

\* A backend call a handler made, in the order made.
Call(fn, arg) == [fn |-> fn, arg |-> arg]

\* What a handler does: the state after, the result, the backend calls and the
\* number of connections live at once at its busiest point.
Out(d, result, calls, peak) ==
    [db |-> d, ret |-> result, calls |-> calls, peak |-> peak]

Live(d) == Cardinality(d.openConns)

\* self.engine.connect() succeeding: a new handle, now open.
NewHandle(d) == d.engineConnects + 1
EngineConnect(d) ==
    [d EXCEPT !.engineConnects = @ + 1, !.openConns = @ \cup {NewHandle(d)}]

\* connection.commit(): what was executed on the connection becomes visible.
Commit(d, pending) ==
    [d EXCEPT !.committed = @ \cup pending.effects,
              !.tables = (@ \cup pending.created) \ pending.dropped]
\* connection.rollback(), or a connection closed with work pending: dropped.
Rollback(d, pending) == d
Pending(effects, created, dropped) ==
    [effects |-> effects, created |-> created, dropped |-> dropped]
StmtPending(stmt) == Pending(Effects(stmt), {}, {})

\* ------------------------------------------------------- connect and close
\* A connect() that asks the engine whether or not a connection is held.
connect_unguarded(d, ok) ==
    IF ok
    THEN Out([EngineConnect(d) EXCEPT !.connection = NewHandle(d)], NoReturn,
             <<Call("engine.connect", <<>>)>>, Live(d) + 1)
    ELSE Out(d, Raises("OperationalError"),
             <<Call("engine.connect", <<>>)>>, Live(d))

\* Database.connect: `ok` is whether engine.connect() succeeds when asked.
connect(d, ok) ==
    IF ~Truthy(d.connection)
    THEN IF ok
         THEN Out([EngineConnect(d) EXCEPT !.connection = NewHandle(d)],
                  NoReturn, <<Call("engine.connect", <<>>)>>, Live(d) + 1)
         ELSE Out(d, Raises("OperationalError"),
                  <<Call("engine.connect", <<>>)>>, Live(d))
    ELSE Out(d, NoReturn, <<>>, Live(d))

\* A close() that closes the handle and keeps holding it.
close_keeps_handle(d) ==
    IF Truthy(d.connection)
    THEN Out([d EXCEPT !.openConns = @ \ {d.connection},
                       !.closeCalls = @ + 1],
             NoReturn, <<Call("connection.close", <<>>)>>, Live(d))
    ELSE Out(d, NoReturn, <<>>, Live(d))

\* Database.close
close(d) ==
    IF Truthy(d.connection)
    THEN Out([d EXCEPT !.openConns = @ \ {d.connection},
                       !.closeCalls = @ + 1,
                       !.connection = None],
             NoReturn, <<Call("connection.close", <<>>)>>, Live(d))
    ELSE Out(d, NoReturn, <<>>, Live(d))

\* ----------------------------------------------------------------- read_sql
\* params as the caller passes it: None, or a list of values.
NoParams == [isNone |-> TRUE, items |-> <<>>]
AgeParams == [isNone |-> FALSE, items |-> <<"18">>]
ParamValues == {NoParams, [isNone |-> FALSE, items |-> <<>>], AgeParams}
\* `if params:`
TruthyParams(p) == ~p.isNone /\ Len(p.items) > 0

\* pd.read_sql_query(sql, self.engine[, params=params]) as a backend call.
ReadCall(stmt, withParams, p) ==
    Call("pd.read_sql_query",
         [sql |-> stmt.text, withParams |-> withParams,
          params |-> IF withParams THEN p.items ELSE <<>>])

\* pandas runs the statement on a connection of its own and commits on success.
ReadResult(d, stmt, call, ok) ==
    IF ok /\ stmt.returnsRows
    THEN Out(Commit(d, StmtPending(stmt)),
             Frame(stmt.keys, stmt.rows), <<call>>, Live(d) + 1)
    ELSE Out(d, EmptyFrame, <<call>>, Live(d) + 1)

\* A read_sql that hands params over whenever it is not None.
read_sql_params_not_none(d, stmt, p, ok) ==
    ReadResult(d, stmt, ReadCall(stmt, ~p.isNone, p), ok)

\* Database.read_sql: `ok` is whether the read succeeds at the backend.
read_sql(d, stmt, p, ok) ==
    IF TruthyParams(p)
    THEN ReadResult(d, stmt, ReadCall(stmt, TRUE, p), ok)
    ELSE ReadResult(d, stmt, ReadCall(stmt, FALSE, p), ok)

\* -------------------------------------------------------------------- query
QueryError == StatusFrame("error", "query failed")
QuerySuccess(stmt) ==
    Frame(<<"status", "message", "rows_affected">>,
          << <<"success", "query ok", stmt.rowcount>> >>)

\* The stages at which the backend can raise inside query().
QueryStages == {"connect", "execute", "commit", "fetch"}

\* The backend calls of query() up to and including stage `upto`, then the
\* close() the `with` block makes on the way out.
QueryCalls(stmt, upto) ==
    LET all == <<Call("engine.connect", <<>>), Call("execute", stmt.text),
                 Call("commit", <<>>), Call("fetchall", <<>>)>>
        n == CASE upto = "connect" -> 1 [] upto = "execute" -> 2
               [] upto = "commit" -> 3 [] OTHER -> 4
    IN  IF n = 1 THEN SubSeq(all, 1, 1)
        ELSE Append(SubSeq(all, 1, n), Call("close", <<>>))

\* Database.query with the SELECT test `isSelect` already made: `fail` is the
\* stage at which the backend raises, or "none".
QueryRun(d, stmt, fail, isSelect) ==
    LET done == Commit(d, StmtPending(stmt))
    IN  CASE fail = "connect" ->
               Out(d, QueryError, QueryCalls(stmt, "connect"), Live(d))
          [] fail = "execute" ->
               Out(Rollback(d, Pending({}, {}, {})), QueryError,
                   QueryCalls(stmt, "execute"), Live(d) + 1)
          [] fail = "commit" ->
               Out(Rollback(d, StmtPending(stmt)), QueryError,
                   QueryCalls(stmt, "commit"), Live(d) + 1)
          [] OTHER ->
               IF isSelect
               THEN IF fail = "fetch" \/ ~stmt.returnsRows
                    THEN Out(done, QueryError, QueryCalls(stmt, "fetch"),
                             Live(d) + 1)
                    ELSE Out(done, Frame(stmt.keys, stmt.rows),
                             QueryCalls(stmt, "fetch"), Live(d) + 1)
               ELSE Out(done, QuerySuccess(stmt), QueryCalls(stmt, "commit"),
                        Live(d) + 1)

\* A query that tests the text as given, neither stripped nor upper-cased.
query_raw_prefix(d, stmt, fail) ==
    QueryRun(d, stmt, fail, StartsWith(stmt.text, KwSelect))

\* A query that closes the instance's own connection when the backend raises.
query_closes_on_error(d, stmt, fail) ==
    LET o == QueryRun(d, stmt, fail, IsSelect(stmt.text))
    IN  IF fail = "none" THEN o
        ELSE Out(close(o.db).db, o.ret, o.calls \o close(o.db).calls, o.peak)

\* Database.query
query(d, stmt, fail) == QueryRun(d, stmt, fail, IsSelect(stmt.text))

\* -------------------------------------------------------- transaction_query
TxnError == StatusFrame("error", "transaction failed")
TxnStages == {"begin", "execute", "commit"}

\* What the first k statements of the list leave pending on the connection.
PendingUpTo(queries, k) ==
    Pending(UNION {Effects(queries[i]) : i \in 1..k}, {}, {})

\* A result list built back to front.
TxnFrameReversed(queries) ==
    Frame(IF queries = <<>> THEN <<>> ELSE <<"query", "rows_affected">>,
          [i \in 1..Len(queries) |->
              <<queries[Len(queries) + 1 - i].text,
                queries[Len(queries) + 1 - i].rowcount>>])

\* pd.DataFrame(results): one {"query", "rows_affected"} record per statement.
TxnFrame(queries) ==
    Frame(IF queries = <<>> THEN <<>> ELSE <<"query", "rows_affected">>,
          [i \in 1..Len(queries) |->
              <<queries[i].text, queries[i].rowcount>>])

ExecCalls(queries, k) == [i \in 1..k |-> Call("execute", queries[i].text)]

\* A transaction_query on a plain connection that commits after each statement.
transaction_query_autocommit(d, queries, fail) ==
    CASE fail.stage = "begin" ->
           Out(d, TxnError, <<Call("engine.connect", <<>>)>>, Live(d))
      [] fail.stage = "execute" ->
           Out(Commit(d, PendingUpTo(queries, fail.index - 1)),
               TxnError,
               <<Call("engine.connect", <<>>)>> \o ExecCalls(queries, fail.index)
                   \o <<Call("close", <<>>)>>,
               Live(d) + 1)
      [] fail.stage = "commit" ->
           Out(Commit(d, PendingUpTo(queries, Len(queries) - 1)),
               TxnError,
               <<Call("engine.connect", <<>>)>> \o ExecCalls(queries, Len(queries))
                   \o <<Call("commit", <<>>), Call("close", <<>>)>>,
               Live(d) + 1)
      [] OTHER ->
           Out(Commit(d, PendingUpTo(queries, Len(queries))),
               TxnFrame(queries),
               <<Call("engine.connect", <<>>)>> \o ExecCalls(queries, Len(queries))
                   \o <<Call("commit", <<>>), Call("close", <<>>)>>,
               Live(d) + 1)

\* Database.transaction_query: `fail` is [stage, index], the stage at which the
\* backend raises ("none": nowhere) and, for "execute", the failing statement.
\* Everything executed is pending on the connection of engine.begin() until
\* commit(); leaving the block on an exception rolls it back.
transaction_query(d, queries, fail) ==
    CASE fail.stage = "begin" ->
           Out(d, TxnError, <<Call("engine.begin", <<>>)>>, Live(d))
      [] fail.stage = "execute" ->
           Out(Rollback(d, PendingUpTo(queries, fail.index - 1)), TxnError,
               <<Call("engine.begin", <<>>)>> \o ExecCalls(queries, fail.index)
                   \o <<Call("rollback", <<>>), Call("close", <<>>)>>,
               Live(d) + 1)
      [] fail.stage = "commit" ->
           Out(Rollback(d, PendingUpTo(queries, Len(queries))), TxnError,
               <<Call("engine.begin", <<>>)>> \o ExecCalls(queries, Len(queries))
                   \o <<Call("commit", <<>>), Call("rollback", <<>>),
                        Call("close", <<>>)>>,
               Live(d) + 1)
      [] OTHER ->
           Out(Commit(d, PendingUpTo(queries, Len(queries))),
               TxnFrame(queries),
               <<Call("engine.begin", <<>>)>> \o ExecCalls(queries, Len(queries))
                   \o <<Call("commit", <<>>), Call("close", <<>>)>>,
               Live(d) + 1)

\* ------------------------------------------- create_table and delete_table
DdlStages == {"connect", "execute", "commit"}
DdlFrame(status, message) == StatusFrame(status, message)

\* The `try` body shared by create_table and delete_table, and their `except`
\* branch: self.connection.rollback() on whatever self.connection then is.
\*   stmtCall   the execute() call with the DDL text
\*   pending    what the DDL leaves pending once executed
\*   refused    the database refuses the DDL (the table exists / is missing)
\*   fail       the stage at which the backend raises, or "none"
DdlRun(d, stmtCall, pending, refused, fail, okMessage, errMessage) ==
    LET c == IF ~Truthy(d.connection) THEN connect(d, fail # "connect")
             ELSE Out(d, NoReturn, <<>>, Live(d))
        d1 == c.db
        nothing == Pending({}, {}, {})
        rollbackCall == Call("connection.rollback", <<>>)
    IN  IF c.ret.kind = "raise"
        THEN \* connect() raised inside the try; self.connection is still None,
             \* so the rollback in the except branch raises AttributeError.
             Out(d1, Raises("AttributeError"), c.calls, c.peak)
        ELSE IF fail = "execute" \/ refused
        THEN Out(Rollback(d1, nothing), DdlFrame("error", errMessage),
                 c.calls \o <<stmtCall, rollbackCall>>, c.peak)
        ELSE IF fail = "commit"
        THEN Out(Rollback(d1, pending), DdlFrame("error", errMessage),
                 c.calls \o <<stmtCall, Call("connection.commit", <<>>),
                              rollbackCall>>, c.peak)
        ELSE Out(Commit(d1, pending), DdlFrame("success", okMessage),
                 c.calls \o <<stmtCall, Call("connection.commit", <<>>)>>,
                 c.peak)

\* Database.create_table
create_table(d, table, columns, fail) ==
    DdlRun(d, Call("connection.execute", <<"CREATE TABLE", table, columns>>),
           Pending({}, {table}, {}), table \in d.tables, fail,
           "table created", "create failed")

\* Database.delete_table
delete_table(d, table, fail) ==
    DdlRun(d, Call("connection.execute", <<"DROP TABLE", table>>),
           Pending({}, {}, {table}), table \notin d.tables, fail,
           "table deleted", "delete failed")

\* ---------------------------------------------------------------- templates
\* A query name or file name is a sequence of parts, the extension ".sql"
\* being a part of its own.
Extension == ".sql"

\* query_name.endswith(".sql")
EndsWithExtension(name) == name # <<>> /\ name[Len(name)] = Extension

\* `if not query_name.endswith(".sql"): query_name += ".sql"`
WithExtension(name) ==
    IF ~EndsWithExtension(name) THEN Append(name, Extension) ELSE name

\* A template file is the pieces of its text: literal text, `{{ name }}` and
\* `{{ name.attr }}`; a file that does not compile has a syntax error.
Text(chars) == [kind |-> "text", chars |-> chars, name |-> ""]
Variable(name) == [kind |-> "variable", chars |-> <<>>, name |-> name]
Attribute(name) == [kind |-> "attribute", chars |-> <<>>, name |-> name]
Template(compiles, pieces) == [compiles |-> compiles, pieces |-> pieces]

\* 'SELECT * WHERE age > {{min_age}}'
UsersByAge ==
    Template(TRUE, <<Text(<<"S","E","L","E","C","T"," ","*"," ","W","H","E","R","E"," ",
                          "a","g","e"," ",">"," ">>),
                     Variable("min_age")>>)

\* The files under sql_dir.
SqlDir ==
    (<<"users_by_age", Extension>> :> UsersByAge)
    @@ (<<"users_by_age">> :>
            Template(TRUE, <<Text(<<"I","N","S","E","R","T">>)>>))
    @@ (<<"user_profile", Extension>> :>
            Template(TRUE, <<Text(<<"S","E","L","E","C","T"," ">>), Attribute("user")>>))
    @@ (<<"unclosed", Extension>> :> Template(FALSE, <<>>))

QueryNames == {<<"users_by_age">>, <<"users_by_age", Extension>>,
               <<"user_profile">>, <<"unclosed">>, <<"missing">>}

\* **kwargs: the bindings in the order given, each a name and a value; a value
\* is its type and the characters of str(value).
IntValue(chars) == [type |-> "int", chars |-> chars]
StrValue(chars) == [type |-> "str", chars |-> chars]
Binding(name, value) == [name |-> name, value |-> value]
KwargSets == {<<>>,
              <<Binding("min_age", IntValue(<<"1","8">>))>>,
              <<Binding("min_age", StrValue(<<"1","<","2">>))>>}
IsBound(kwargs, name) == \E i \in 1..Len(kwargs) : kwargs[i].name = name
ValueOf(kwargs, name) ==
    kwargs[CHOOSE i \in 1..Len(kwargs) : kwargs[i].name = name].value

\* autoescape=select_autoescape(["sql"]) is on for every file ending in .sql:
\* the characters of a substituted value are HTML-escaped.
escape(c) ==
    CASE c = "<" -> <<"&","l","t",";">>
      [] c = ">" -> <<"&","g","t",";">>
      [] c = "&" -> <<"&","a","m","p",";">>
      [] c = "'" -> <<"&","#","3","9",";">>
      [] c = "\"" -> <<"&","#","3","4",";">>
      [] OTHER -> <<c>>

RECURSIVE Markup(_)
Markup(chars) ==
    IF chars = <<>> THEN <<>> ELSE escape(Head(chars)) \o Markup(Tail(chars))

\* An undefined name renders as nothing; an attribute of a bound value that
\* lacks it renders as nothing.
RenderPiece(piece, kwargs) ==
    CASE piece.kind = "text" -> piece.chars
      [] piece.kind = "variable" ->
            IF IsBound(kwargs, piece.name)
            THEN Markup(ValueOf(kwargs, piece.name).chars)
            ELSE <<>>
      [] OTHER -> <<>>

RECURSIVE RenderPieces(_, _)
RenderPieces(pieces, kwargs) ==
    IF pieces = <<>> THEN <<>>
    ELSE RenderPiece(Head(pieces), kwargs) \o RenderPieces(Tail(pieces), kwargs)

\* An attribute of an undefined name raises UndefinedError.
RenderRaises(template, kwargs) ==
    \E i \in 1..Len(template.pieces) :
        /\ template.pieces[i].kind = "attribute"
        /\ ~IsBound(kwargs, template.pieces[i].name)

\* template.render(**kwargs)
render(template, kwargs) ==
    IF RenderRaises(template, kwargs) THEN Raises("UndefinedError")
    ELSE Returns("str", RenderPieces(template.pieces, kwargs))

\* self.jinja_env.get_template(query_name)
get_template(file) ==
    IF file \notin DOMAIN SqlDir THEN Raises("TemplateNotFound")
    ELSE IF ~SqlDir[file].compiles THEN Raises("TemplateSyntaxError")
    ELSE Returns("template", SqlDir[file])

\* A get_query_from_file that appends the extension to every name.
get_query_from_file_always_appends(d, env, query_name, kwargs) ==
    LET file == Append(query_name, Extension)
        load == Call("get_template", file)
        template == get_template(file)
        rendered == render(template.value, kwargs)
    IN  IF env = NoEnvironment THEN Out(d, Raises("ValueError"), <<>>, Live(d))
        ELSE IF template.kind = "raise"
        THEN Out(d, Raises(IF template.exc = "TemplateNotFound"
                           THEN "FileNotFoundError" ELSE "ValueError"),
                 <<load>>, Live(d))
        ELSE IF rendered.kind = "raise"
        THEN Out(d, Raises("ValueError"), <<load, Call("render", kwargs)>>,
                 Live(d))
        ELSE Out(d, rendered, <<load, Call("render", kwargs)>>, Live(d))

\* A get_query_from_file that lets what get_template and render raise through.
get_query_from_file_unwrapped(d, env, query_name, kwargs) ==
    LET file == WithExtension(query_name)
        load == Call("get_template", file)
        template == get_template(file)
        rendered == render(template.value, kwargs)
    IN  IF env = NoEnvironment THEN Out(d, Raises("ValueError"), <<>>, Live(d))
        ELSE IF template.kind = "raise"
        THEN Out(d, template, <<load>>, Live(d))
        ELSE Out(d, rendered, <<load, Call("render", kwargs)>>, Live(d))

\* Database.get_query_from_file: `env` is self.jinja_env.
get_query_from_file(d, env, query_name, kwargs) ==
    LET file == WithExtension(query_name)
        load == Call("get_template", file)
        template == get_template(file)
        rendered == render(template.value, kwargs)
    IN  IF env = NoEnvironment THEN Out(d, Raises("ValueError"), <<>>, Live(d))
        ELSE IF template.kind = "raise"
        THEN Out(d, Raises(IF template.exc = "TemplateNotFound"
                           THEN "FileNotFoundError" ELSE "ValueError"),
                 <<load>>, Live(d))
        ELSE IF rendered.kind = "raise"
        THEN Out(d, Raises("ValueError"), <<load, Call("render", kwargs)>>,
                 Live(d))
        ELSE Out(d, rendered, <<load, Call("render", kwargs)>>, Live(d))

\* 'SELECT * WHERE age > 18' as the backend answers it.
SelectByAge ==
    Stmt(<<"S","E","L","E","C","T"," ","*"," ","W","H","E","R","E"," ",
          "a","g","e"," ",">"," ","1","8">>,
         NoEffect, 2, TRUE, <<"age">>, << <<25>>, <<30>> >>)

\* The statement a rendered text is to the backend; a text it does not know
\* is rejected.
StatementFor(text) ==
    IF \E stmt \in Statements \cup {SelectByAge} : stmt.text = text
    THEN CHOOSE stmt \in Statements \cup {SelectByAge} : stmt.text = text
    ELSE Stmt(text, NoEffect, 0, FALSE, <<>>, <<>>)

\* An execute_query_file that handles only the missing file.
execute_query_file_not_found_only(d, env, query_name, p, kwargs, ok) ==
    LET sql == get_query_from_file(d, env, query_name, kwargs)
        read == read_sql(d, StatementFor(sql.ret.value), p, ok)
    IN  IF sql.ret.kind = "raise" /\ sql.ret.exc = "FileNotFoundError"
        THEN Out(d, StatusFrame("error", sql.ret.exc), sql.calls, Live(d))
        ELSE IF sql.ret.kind = "raise"
        THEN Out(d, sql.ret, sql.calls, Live(d))
        ELSE Out(read.db, read.ret, sql.calls \o read.calls, read.peak)

\* An execute_query_file that answers a template failure as read_sql answers
\* a failed read: with an empty result.
execute_query_file_empty_on_error(d, env, query_name, p, kwargs, ok) ==
    LET sql == get_query_from_file(d, env, query_name, kwargs)
        read == read_sql(d, StatementFor(sql.ret.value), p, ok)
    IN  IF sql.ret.kind = "raise"
        THEN Out(d, EmptyFrame, sql.calls, Live(d))
        ELSE Out(read.db, read.ret, sql.calls \o read.calls, read.peak)

\* Database.execute_query_file: the FileNotFoundError branch reports str(e),
\* the Exception branch a message around it.
execute_query_file(d, env, query_name, p, kwargs, ok) ==
    LET sql == get_query_from_file(d, env, query_name, kwargs)
        read == read_sql(d, StatementFor(sql.ret.value), p, ok)
    IN  IF sql.ret.kind = "raise" /\ sql.ret.exc = "FileNotFoundError"
        THEN Out(d, StatusFrame("error", sql.ret.exc), sql.calls, Live(d))
        ELSE IF sql.ret.kind = "raise"
        THEN Out(d, StatusFrame("error", "execute_query_file: " \o sql.ret.exc),
                 sql.calls, Live(d))
        ELSE Out(read.db, read.ret, sql.calls \o read.calls, read.peak)

\* ------------------------------------------------------------------- schema
\* The tables the backend may hold, in the order get_table_names() lists them.
SchemaTables == <<"orders", "users">>
SchemaNames == {SchemaTables[i] : i \in 1..Len(SchemaTables)}
Listing(held) == SelectSeq(SchemaTables, LAMBDA t : t \in held)

HasColumn(frame, name) ==
    \E i \in 1..Len(frame.columns) : frame.columns[i] = name
ColumnValues(frame, name) ==
    LET c == CHOOSE i \in 1..Len(frame.columns) : frame.columns[i] = name
    IN  {frame.rows[r][c] : r \in 1..Len(frame.rows)}

\* results_df["table_name"] = table_name
WithColumn(frame, name, value) ==
    Frame(Append(frame.columns, name),
          [r \in 1..Len(frame.rows) |-> Append(frame.rows[r], value)])

\* A list_tables that opens the instance's own connection before listing.
list_tables_connects(d, ok) ==
    LET c == connect(d, ok)
        names == Listing(d.tables)
    IN  IF c.ret.kind = "raise" THEN c
        ELSE Out(c.db, Frame(<<"table_name">>,
                             [i \in 1..Len(names) |-> <<names[i]>>]),
                 c.calls \o <<Call("inspector.get_table_names", <<>>)>>,
                 c.peak)

\* Database.list_tables: the inspector reads the names on a connection it
\* takes from the engine; nothing is caught.
list_tables(d, ok) ==
    LET call == Call("inspector.get_table_names", <<>>)
        names == Listing(d.tables)
    IN  IF ok
        THEN Out(d, Frame(<<"table_name">>,
                          [i \in 1..Len(names) |-> <<names[i]>>]),
                 <<call>>, Live(d) + 1)
        ELSE Out(d, Raises("OperationalError"), <<call>>, Live(d))

\* self.execute_sql_file(...): neither Database nor a variant defines it, so
\* the attribute lookup raises before the backend (`answers`: the tables whose
\* introspection it would answer) is asked anything.
execute_sql_file(d, path, table_name, answers) == Raises("AttributeError")

SchemaColumns == <<"name", "type", "nullable", "default", "primary_key">>

\* Database.get_table_schema
get_table_schema(d, table_name, answers) ==
    LET results_df == execute_sql_file(d, "db/sql/get_table_schema.sql",
                                       table_name, answers)
        renamed == IF Len(results_df.columns) >= 5
                   THEN [results_df EXCEPT !.columns = SchemaColumns]
                   ELSE results_df
    IN  IF results_df.kind = "raise"
        THEN Out(d, StatusFrame("error", "get_table_schema: " \o results_df.exc),
                 <<>>, Live(d))
        ELSE IF /\ HasColumn(results_df, "status")
                /\ "error" \in ColumnValues(results_df, "status")
        THEN Out(d, results_df, <<>>, Live(d))
        ELSE IF Len(results_df.columns) > 5
        THEN Out(d, StatusFrame("error", "get_table_schema: ValueError"),
                 <<>>, Live(d))
        ELSE Out(d, WithColumn(renamed, "table_name", table_name),
                 <<>>, Live(d))

\* pd.concat(all_schema_data, ignore_index=True) of frames of like columns
RECURSIVE ConcatRows(_)
ConcatRows(frames) ==
    IF frames = <<>> THEN <<>>
    ELSE Head(frames).rows \o ConcatRows(Tail(frames))
Concat(frames) == Frame(frames[1].columns, ConcatRows(frames))

\* Database.get_tables_schema
get_tables_schema(d, ok, answers) ==
    LET listed == list_tables(d, ok)
        schemas == [i \in 1..Len(listed.ret.rows) |->
                       get_table_schema(d, listed.ret.rows[i][1], answers).ret]
        all_schema_data ==
            SelectSeq(schemas, LAMBDA f : ~HasColumn(f, "status"))
    IN  IF listed.ret.kind = "raise"
        THEN Out(d, StatusFrame("error",
                                "get_tables_schema: " \o listed.ret.exc),
                 listed.calls, listed.peak)
        ELSE IF all_schema_data # <<>>
        THEN Out(d, Concat(all_schema_data), listed.calls, listed.peak)
        ELSE Out(d, StatusFrame("warning", "no table or no schema"),
                 listed.calls, listed.peak)

\* ------------------------------------------------------------------ actions
Op(name, arg, env, calls) ==
    [op |-> name, arg |-> arg, env |-> env, pre |-> Db, calls |-> calls]

\* The state after a handler whose outcome is `o`.
Apply(name, arg, env, o) ==
    /\ connection' = o.db.connection
    /\ openConns' = o.db.openConns
    /\ engineConnects' = o.db.engineConnects
    /\ closeCalls' = o.db.closeCalls
    /\ committed' = o.db.committed
    /\ tables' = o.db.tables
    /\ peakLive' = o.peak
    /\ last' = Op(name, arg, env, o.calls)
    /\ ret' = o.ret
    /\ UNCHANGED <<variant, jinja_env, scope, sheetVars>>

\* Database.__init__, and Postgresql.__init__ which connects at once (an
\* instance exists only if that connect succeeded).
Construct(names) ==
    /\ variant \in Variants
    /\ connection = IF variant = "Postgresql" THEN 1 ELSE None
    /\ openConns = IF variant = "Postgresql" THEN {1} ELSE {}
    /\ engineConnects = IF variant = "Postgresql" THEN 1 ELSE 0
    /\ closeCalls = 0
    /\ committed = {}
    /\ tables \in SUBSET names
    /\ peakLive = Cardinality(openConns)
    /\ spreadsheet_id = NoId
    /\ docs = 0
    /\ last = [op |-> "__init__", arg |-> <<>>, env |-> <<>>,
               pre |-> [connection |-> None, openConns |-> {},
                        engineConnects |-> 0, closeCalls |-> 0,
                        committed |-> {}, tables |-> tables],
               calls |-> <<>>]
    /\ ret = NoReturn

\* The runs of connect, close, read_sql, query, transaction_query,
\* create_table and delete_table: none of them reads jinja_env, which is taken
\* here as the environment of an existing sql directory.
Init ==
    /\ Construct(TableNames)
    /\ jinja_env = Environment
    /\ scope = "database"

\* The model stops asking the engine at MaxConnects handles.
MayConnect == Truthy(connection) \/ engineConnects < MaxConnects

Connect ==
    /\ MayConnect
    /\ \E ok \in BOOLEAN : Apply("connect", <<>>, ok, connect(Db, ok))

Close == Apply("close", <<>>, <<>>, close(Db))

ReadSql ==
    \E stmt \in Statements, p \in ParamValues, ok \in BOOLEAN :
        Apply("read_sql", [stmt |-> stmt, params |-> p], ok,
              read_sql(Db, stmt, p, ok))

\* fetchall() is reached only on the SELECT branch.
QueryFails(stmt) ==
    {"none", "connect", "execute", "commit"}
        \cup (IF IsSelect(stmt.text) THEN {"fetch"} ELSE {})

Query ==
    \E stmt \in Statements :
        \E fail \in QueryFails(stmt) :
            Apply("query", stmt, fail, query(Db, stmt, fail))

\* Statement lists of up to n statements.
RECURSIVE Lists(_)
Lists(n) ==
    IF n = 0 THEN {<<>>}
    ELSE Lists(n - 1)
         \cup {Append(l, x) : l \in {m \in Lists(n - 1) : Len(m) = n - 1},
                              x \in TxnStatements}

TxnLists == Lists(MaxQueries)

TxnFails(queries) ==
    {[stage |-> st, index |-> 0] : st \in {"none", "begin", "commit"}}
        \cup {[stage |-> "execute", index |-> i] : i \in 1..Len(queries)}

TransactionQuery ==
    \E queries \in TxnLists :
        \E fail \in TxnFails(queries) :
            Apply("transaction_query", queries, fail,
                  transaction_query(Db, queries, fail))

\* connect() is reached only with no connection held.
DdlFails == {"none", "execute", "commit"}
                \cup (IF Truthy(connection) THEN {} ELSE {"connect"})

CreateTable ==
    /\ MayConnect
    /\ \E table \in TableNames, columns \in ColumnSets, fail \in DdlFails :
           Apply("create_table", [table |-> table, columns |-> columns], fail,
                 create_table(Db, table, columns, fail))

DeleteTable ==
    /\ MayConnect
    /\ \E table \in TableNames, fail \in DdlFails :
           Apply("delete_table", [table |-> table], fail,
                 delete_table(Db, table, fail))

Next ==
    \/ Connect
    \/ Close
    \/ ReadSql
    \/ Query
    \/ TransactionQuery
    \/ CreateTable
    \/ DeleteTable

Spec == Init /\ [][Next]_vars

\* ------------------------------------------------ template and schema runs
\* The runs of get_query_from_file, execute_query_file, list_tables,
\* get_table_schema and get_tables_schema, on an instance that holds no
\* connection, holds one (Postgresql) or has closed it: sql_dir exists at
\* construction or does not.
TemplateInit ==
    /\ Construct(SchemaNames)
    /\ jinja_env \in {NoEnvironment, Environment}
    /\ scope = "templates"

GetQueryFromFile ==
    \E query_name \in QueryNames, kwargs \in KwargSets :
        Apply("get_query_from_file",
              [query_name |-> query_name, kwargs |-> kwargs], <<>>,
              get_query_from_file(Db, jinja_env, query_name, kwargs))

ExecuteQueryFile ==
    \E query_name \in QueryNames, p \in {NoParams, AgeParams},
       kwargs \in KwargSets, ok \in BOOLEAN :
        Apply("execute_query_file",
              [query_name |-> query_name, params |-> p, kwargs |-> kwargs],
              ok,
              execute_query_file(Db, jinja_env, query_name, p, kwargs, ok))

ListTables ==
    \E ok \in BOOLEAN : Apply("list_tables", <<>>, ok, list_tables(Db, ok))

GetTableSchema ==
    \E table_name \in SchemaNames, answers \in SUBSET SchemaNames :
        Apply("get_table_schema", [table_name |-> table_name],
              [answers |-> answers],
              get_table_schema(Db, table_name, answers))

GetTablesSchema ==
    \E ok \in BOOLEAN, answers \in SUBSET SchemaNames :
        Apply("get_tables_schema", <<>>, [ok |-> ok, answers |-> answers],
              get_tables_schema(Db, ok, answers))

TemplateNext ==
    \/ Close
    \/ GetQueryFromFile
    \/ ExecuteQueryFile
    \/ ListTables
    \/ GetTableSchema
    \/ GetTablesSchema

TemplateSpec == TemplateInit /\ [][TemplateNext]_vars

\* -------------------------------------------------------- GoogleSpreadsheet
\* The instance's fields and what it has created remotely, as one value.
Sheet == [spreadsheet_id |-> spreadsheet_id, docs |-> docs]

SOut(g, result, calls) == [g |-> g, ret |-> result, calls |-> calls]

\* How a remote call ends: it returns, raises HttpError, or raises anything
\* else (a transport error, a response without the expected keys).
RemoteOutcomes == {"ok", "http", "other"}

Bool(b) == Returns("bool", b)
PyList(l) == Returns("list", l)
PyNone == Returns("none", <<>>)
ErrorFrame(text) == Frame(<<"error">>, << <<text>> >>)

GivenIds == {1}                       \* the documents the caller knows of
NewDocId(k) == PyStr(Cardinality(GivenIds) + k)
SheetNames == {"Sheet1", "Data"}
NoRange == ""                         \* range_name None or "": both falsy
RangeNames == {NoRange, "A1:D10"}
NoneCell == "<None>"

\* spreadsheets().values().get(...) responses: the "values" of the range.
Grids == {<<>>,
          << <<"a", "b", "c">> >>,
          << <<"a", "b", "c">>, <<"1", "2">> >>,
          << <<"a", "b">>, <<"1", "2">>, <<"3">>, <<>> >>,
          << <<"a">>, <<"1", "2">> >>}

\* The tabular values handed to write_sheet and append_sheet.
Tables == {Frame(<<"Name", "Age">>, <<>>),
           Frame(<<"Name", "Age">>, << <<"Alice", "25">>, <<"Bob", "30">> >>)}

\* spreadsheets().get(...) responses: the titles of the sheets, in order; the
\* sheet at position i has sheetId i - 1.
SheetLists == {<<>>, <<"Sheet1">>, <<"Sheet1", "Data">>}

NameLists == {<<>>, <<"Sheet1">>, <<"Data", "Summary">>,
              <<"Data", "Summary", "Charts">>}

\* A guard that tests for None only, so that "" passes.
RequireTargetNotNone(g, body) ==
    IF g.spreadsheet_id.isNone THEN SOut(g, Raises("ValueError"), <<>>)
    ELSE body

\* What every method but set_spreadsheet_id and create_spreadsheet starts
\* with: `if not self.spreadsheet_id: raise ValueError(...)`.
RequireTarget(g, body) ==
    IF ~TruthyId(g.spreadsheet_id) THEN SOut(g, Raises("ValueError"), <<>>)
    ELSE body

\* f"{sheet_name}!{range_name}" if range_name else sheet_name
FullRange(sheet, range) ==
    IF range # NoRange THEN <<sheet, "!", range>> ELSE <<sheet>>

\* GoogleSpreadsheet.set_spreadsheet_id
set_spreadsheet_id(g, id) ==
    SOut([g EXCEPT !.spreadsheet_id = id], NoReturn, <<>>)

\* row.extend([None] * (len(header) - len(row))) for a short row
Pad(row, n) ==
    IF Len(row) < n
    THEN row \o [i \in 1..(n - Len(row)) |-> NoneCell]
    ELSE row

\* pd.DataFrame(data, columns=header) raises when a row is longer than header.
TooLong(data, header) == \E i \in 1..Len(data) : Len(data[i]) > Len(header)

\* GoogleSpreadsheet.read_sheet: `outcome` is how the remote get ends and
\* `values` what it returns when it returns.
read_sheet(g, sheet, range, outcome, values) ==
    RequireTarget(g,
        LET call == Call("values.get",
                         [spreadsheetId |-> g.spreadsheet_id,
                          range |-> FullRange(sheet, range)])
            header == values[1]
            data == [i \in 1..(Len(values) - 1) |->
                        Pad(values[i + 1], Len(header))]
        IN  IF outcome # "ok" THEN SOut(g, ErrorFrame(outcome), <<call>>)
            ELSE IF values = <<>> THEN SOut(g, EmptyFrame, <<call>>)
            ELSE IF TooLong(data, header)
            THEN SOut(g, ErrorFrame("ValueError"), <<call>>)
            ELSE SOut(g, Frame(header, data), <<call>>))

\* include_header as the caller passes it: left out, True or False.
HeaderArgs == {"omitted", "True", "False"}
Given(arg, default) == IF arg = "omitted" THEN default ELSE arg = "True"

\* A serialization that puts the column names first whatever it is told.
SerializeWithHeader(df, include_header) == <<df.columns>> \o df.rows

\* values = [df.columns.tolist()] (if include_header) + [row.tolist() ...]
Serialize(df, include_header) ==
    IF include_header THEN <<df.columns>> \o df.rows ELSE df.rows

\* The one remote call of write, append, clear and create_sheet, and the
\* boolean it is turned into.
OneCall(g, call, outcome) == SOut(g, Bool(outcome = "ok"), <<call>>)

\* GoogleSpreadsheet.write_sheet (include_header: bool = True)
write_sheet(g, df, sheet, range_start, include_header, outcome) ==
    RequireTarget(g,
        OneCall(g, Call("values.update",
                        [spreadsheetId |-> g.spreadsheet_id,
                         range |-> <<sheet, "!", range_start>>,
                         values |-> Serialize(df, Given(include_header, TRUE))]),
                outcome))

\* GoogleSpreadsheet.append_sheet (include_header: bool = False)
append_sheet(g, df, sheet, include_header, outcome) ==
    RequireTarget(g,
        OneCall(g, Call("values.append",
                        [spreadsheetId |-> g.spreadsheet_id,
                         range |-> <<sheet>>,
                         values |-> Serialize(df, Given(include_header, FALSE))]),
                outcome))

\* GoogleSpreadsheet.clear_sheet
clear_sheet(g, sheet, range, outcome) ==
    RequireTarget(g,
        OneCall(g, Call("values.clear",
                        [spreadsheetId |-> g.spreadsheet_id,
                         range |-> FullRange(sheet, range)]),
                outcome))

\* A get_sheet_names that handles HttpError only.
get_sheet_names_http_only(g, outcome, titles) ==
    RequireTarget(g,
        LET call == Call("spreadsheets.get",
                         [spreadsheetId |-> g.spreadsheet_id])
        IN  CASE outcome = "ok" -> SOut(g, PyList(titles), <<call>>)
              [] outcome = "http" -> SOut(g, PyList(<<>>), <<call>>)
              [] OTHER -> SOut(g, Raises("Exception"), <<call>>))

\* GoogleSpreadsheet.get_sheet_names: `titles` is what the remote get lists.
get_sheet_names(g, outcome, titles) ==
    RequireTarget(g,
        LET call == Call("spreadsheets.get",
                         [spreadsheetId |-> g.spreadsheet_id])
        IN  IF outcome = "ok" THEN SOut(g, PyList(titles), <<call>>)
            ELSE SOut(g, PyList(<<>>), <<call>>))

\* GoogleSpreadsheet.create_sheet
create_sheet(g, sheet, outcome) ==
    RequireTarget(g,
        OneCall(g, Call("batchUpdate",
                        [spreadsheetId |-> g.spreadsheet_id,
                         requests |-> << <<"addSheet", sheet>> >>]),
                outcome))

\* GoogleSpreadsheet.delete_sheet: the remote get lists `titles`; the sheet
\* is looked up by title and, if found, deleted by id in a second call.
delete_sheet(g, sheet, outcome1, titles, outcome2) ==
    RequireTarget(g,
        LET get == Call("spreadsheets.get",
                        [spreadsheetId |-> g.spreadsheet_id])
            found == {i \in 1..Len(titles) : titles[i] = sheet}
            first == CHOOSE i \in found : \A j \in found : i <= j
            del == Call("batchUpdate",
                        [spreadsheetId |-> g.spreadsheet_id,
                         requests |-> << <<"deleteSheet", first - 1>> >>])
        IN  IF outcome1 # "ok" THEN SOut(g, Bool(FALSE), <<get>>)
            ELSE IF found = {} THEN SOut(g, Bool(FALSE), <<get>>)
            ELSE SOut(g, Bool(outcome2 = "ok"), <<get, del>>))

\* A create_spreadsheet that returns the new id whatever the batch request did.
create_spreadsheet_ignores_batch(g, title, names, outcome1, outcome2) ==
    LET sheets == [i \in 1..(Len(names) - 1) |-> <<"addSheet", names[i + 1]>>]
        create == Call("spreadsheets.create",
                       [title |-> title,
                        sheets |-> IF names # <<>> THEN <<names[1]>> ELSE <<>>])
        new_spreadsheet_id == NewDocId(g.docs + 1)
        made == [g EXCEPT !.docs = @ + 1]
        batch == Call("batchUpdate",
                      [spreadsheetId |-> new_spreadsheet_id,
                       requests |-> sheets])
    IN  IF outcome1 # "ok" THEN SOut(g, PyNone, <<create>>)
        ELSE IF Len(sheets) > 0
        THEN SOut(made, Returns("str", new_spreadsheet_id), <<create, batch>>)
        ELSE SOut(made, Returns("str", new_spreadsheet_id), <<create>>)

\* A create_spreadsheet that makes the document it created the target.
create_spreadsheet_adopts(g, title, names, outcome1, outcome2) ==
    LET sheets == [i \in 1..(Len(names) - 1) |-> <<"addSheet", names[i + 1]>>]
        create == Call("spreadsheets.create",
                       [title |-> title,
                        sheets |-> IF names # <<>> THEN <<names[1]>> ELSE <<>>])
        new_spreadsheet_id == NewDocId(g.docs + 1)
        made == [g EXCEPT !.docs = @ + 1]
        adopted == [made EXCEPT !.spreadsheet_id = new_spreadsheet_id]
        batch == Call("batchUpdate",
                      [spreadsheetId |-> new_spreadsheet_id,
                       requests |-> sheets])
    IN  IF outcome1 # "ok" THEN SOut(g, PyNone, <<create>>)
        ELSE IF Len(sheets) > 0
        THEN IF outcome2 # "ok" THEN SOut(made, PyNone, <<create, batch>>)
             ELSE SOut(adopted, Returns("str", new_spreadsheet_id),
                       <<create, batch>>)
        ELSE SOut(adopted, Returns("str", new_spreadsheet_id), <<create>>)

\* GoogleSpreadsheet.create_spreadsheet: no check of spreadsheet_id; a create
\* call, then one batchUpdate adding the names after the first, if any.
create_spreadsheet(g, title, names, outcome1, outcome2) ==
    LET sheets == [i \in 1..(Len(names) - 1) |-> <<"addSheet", names[i + 1]>>]
        create == Call("spreadsheets.create",
                       [title |-> title,
                        sheets |-> IF names # <<>> THEN <<names[1]>> ELSE <<>>])
        new_spreadsheet_id == NewDocId(g.docs + 1)
        made == [g EXCEPT !.docs = @ + 1]
        batch == Call("batchUpdate",
                      [spreadsheetId |-> new_spreadsheet_id,
                       requests |-> sheets])
    IN  IF outcome1 # "ok" THEN SOut(g, PyNone, <<create>>)
        ELSE IF Len(sheets) > 0
        THEN IF outcome2 # "ok" THEN SOut(made, PyNone, <<create, batch>>)
             ELSE SOut(made, Returns("str", new_spreadsheet_id),
                       <<create, batch>>)
        ELSE SOut(made, Returns("str", new_spreadsheet_id), <<create>>)

\* ----------------------------------------------- GoogleSpreadsheet actions
SOp(name, arg, env, calls) ==
    [op |-> name, arg |-> arg, env |-> env, pre |-> Sheet, calls |-> calls]

SApply(name, arg, env, o) ==
    /\ spreadsheet_id' = o.g.spreadsheet_id
    /\ docs' = o.g.docs
    /\ last' = SOp(name, arg, env, o.calls)
    /\ ret' = o.ret
    /\ UNCHANGED <<dbVars, scope>>

\* GoogleSpreadsheet.__init__ with or without a spreadsheet_id; the Database
\* side is a fresh base instance and is left alone.
SheetInit ==
    /\ variant = "Database"
    /\ jinja_env = Environment
    /\ scope = "spreadsheet"
    /\ connection = None
    /\ openConns = {}
    /\ engineConnects = 0
    /\ closeCalls = 0
    /\ committed = {}
    /\ tables = {}
    /\ peakLive = 0
    /\ spreadsheet_id \in {NoId, PyStr(0)} \cup {PyStr(i) : i \in GivenIds}
    /\ docs = 0
    /\ last = [op |-> "__init__", arg |-> spreadsheet_id, env |-> <<>>,
               pre |-> [spreadsheet_id |-> NoId, docs |-> 0], calls |-> <<>>]
    /\ ret = NoReturn

\* The ids a caller can pass: None, "", a known document, one it created.
KnownIds ==
    {NoId, PyStr(0)} \cup {PyStr(i) : i \in GivenIds}
        \cup {NewDocId(k) : k \in 1..docs}

SetSpreadsheetId ==
    \E id \in KnownIds :
        SApply("set_spreadsheet_id", id, <<>>, set_spreadsheet_id(Sheet, id))

ReadSheet ==
    \E sheet \in SheetNames, range \in RangeNames,
       outcome \in RemoteOutcomes, values \in Grids :
        SApply("read_sheet", [sheet |-> sheet, range |-> range],
               [outcomes |-> <<outcome>>, values |-> values],
               read_sheet(Sheet, sheet, range, outcome, values))

WriteSheet ==
    \E df \in Tables, sheet \in SheetNames, include_header \in HeaderArgs,
       outcome \in RemoteOutcomes :
        SApply("write_sheet",
               [df |-> df, sheet |-> sheet, include_header |-> include_header],
               [outcomes |-> <<outcome>>],
               write_sheet(Sheet, df, sheet, "A1", include_header, outcome))

AppendSheet ==
    \E df \in Tables, sheet \in SheetNames, include_header \in HeaderArgs,
       outcome \in RemoteOutcomes :
        SApply("append_sheet",
               [df |-> df, sheet |-> sheet, include_header |-> include_header],
               [outcomes |-> <<outcome>>],
               append_sheet(Sheet, df, sheet, include_header, outcome))

ClearSheet ==
    \E sheet \in SheetNames, range \in RangeNames, outcome \in RemoteOutcomes :
        SApply("clear_sheet", [sheet |-> sheet, range |-> range],
               [outcomes |-> <<outcome>>],
               clear_sheet(Sheet, sheet, range, outcome))

GetSheetNames ==
    \E outcome \in RemoteOutcomes, titles \in SheetLists :
        SApply("get_sheet_names", <<>>,
               [outcomes |-> <<outcome>>, titles |-> titles],
               get_sheet_names(Sheet, outcome, titles))

CreateSheet ==
    \E sheet \in SheetNames, outcome \in RemoteOutcomes :
        SApply("create_sheet", [sheet |-> sheet], [outcomes |-> <<outcome>>],
               create_sheet(Sheet, sheet, outcome))

DeleteSheet ==
    \E sheet \in SheetNames, outcome1 \in RemoteOutcomes,
       titles \in SheetLists, outcome2 \in RemoteOutcomes :
        SApply("delete_sheet", [sheet |-> sheet],
               [outcomes |-> <<outcome1, outcome2>>, titles |-> titles],
               delete_sheet(Sheet, sheet, outcome1, titles, outcome2))

CreateSpreadsheet ==
    /\ docs < MaxDocs
    /\ \E names \in NameLists, outcome1 \in RemoteOutcomes,
          outcome2 \in RemoteOutcomes :
           SApply("create_spreadsheet", [title |-> "T", names |-> names],
                  [outcomes |-> <<outcome1, outcome2>>],
                  create_spreadsheet(Sheet, "T", names, outcome1, outcome2))

SheetNext ==
    \/ SetSpreadsheetId
    \/ ReadSheet
    \/ WriteSheet
    \/ AppendSheet
    \/ ClearSheet
    \/ GetSheetNames
    \/ CreateSheet
    \/ DeleteSheet
    \/ CreateSpreadsheet

SheetSpec == SheetInit /\ [][SheetNext]_vars

\* ------------------------------------------------------------- all methods
\* Every run of the three groups: an instance is exercised by the methods of
\* its group.
LibraryInit == Init \/ TemplateInit \/ SheetInit

LibraryNext ==
    \/ scope = "database" /\ Next
    \/ scope = "templates" /\ TemplateNext
    \/ scope = "spreadsheet" /\ SheetNext

LibrarySpec == LibraryInit /\ [][LibraryNext]_vars

\* ------------------------------------------------------------------- claims
IsErrorRecord(r) ==
    /\ r.kind = "frame"
    /\ r.columns = <<"status", "message">>
    /\ Len(r.rows) = 1
    /\ r.rows[1][1] = "error"

IsSuccessRecord(r) ==
    /\ r.kind = "frame"
    /\ r.columns = <<"status", "message">>
    /\ Len(r.rows) = 1
    /\ r.rows[1][1] = "success"

CallCount(calls, fn) == Cardinality({i \in 1..Len(calls) : calls[i].fn = fn})

\* C1: connect() on an instance that already holds a connection changes
\* nothing: the engine is not asked again, the handle held is the one held
\* before, nothing is raised; and after any connect() that returns, exactly
\* one connection is open and it is the one held.
ConnectIsIdempotent ==
    last.op = "connect" =>
        /\ Truthy(last.pre.connection) =>
              /\ Db = last.pre
              /\ last.calls = <<>>
              /\ ret = NoReturn
        /\ ret = NoReturn =>
              /\ Truthy(connection)
              /\ openConns = {connection}

\* connect() has just been called on an instance holding an open connection.
ConnectOnOpenConnection ==
    /\ last.op = "connect"
    /\ Truthy(last.pre.connection)
    /\ last.pre.connection \in last.pre.openConns

\* C2: close() with a connection held closes that handle with exactly one
\* Connection.close() call and leaves connection None; close() with none held
\* changes nothing and makes no call; neither raises.
CloseIsIdempotent ==
    last.op = "close" =>
        /\ ret = NoReturn
        /\ connection = None
        /\ IF Truthy(last.pre.connection)
           THEN /\ openConns = last.pre.openConns \ {last.pre.connection}
                /\ CallCount(last.calls, "connection.close") = 1
                /\ closeCalls = last.pre.closeCalls + 1
           ELSE /\ Db = last.pre
                /\ last.calls = <<>>

\* close() has just been called on an instance that an earlier close() had
\* already disconnected.
ClosedTwice ==
    /\ last.op = "close"
    /\ ~Truthy(last.pre.connection)
    /\ last.pre.closeCalls >= 1

\* C3: a transaction_query in which the backend raises (at begin, at a
\* statement, or at commit) leaves the database as it was before the call and
\* returns the one-row status 'error' record instead of raising.
TransactionIsAtomic ==
    (last.op = "transaction_query" /\ last.env.stage # "none") =>
        /\ committed = last.pre.committed
        /\ tables = last.pre.tables
        /\ IsErrorRecord(ret)

\* The second statement of a list failed after a first whose effect was new.
SecondStatementFailed ==
    /\ last.op = "transaction_query"
    /\ last.env.stage = "execute"
    /\ last.env.index = 2
    /\ Effects(last.arg[1]) # {}
    /\ ~(Effects(last.arg[1]) \subseteq last.pre.committed)

\* C4: a transaction_query in which nothing fails executes the statements in
\* list order on the one connection of engine.begin(), commits once, makes all
\* their effects visible, and returns one (text, rowcount) record per
\* statement in input order.
TransactionReturnsOneRecordPerStatement ==
    (last.op = "transaction_query" /\ last.env.stage = "none") =>
        LET queries == last.arg
            n == Len(queries)
        IN  /\ ret.kind = "frame"
            /\ Len(ret.rows) = n
            /\ n > 0 => ret.columns = <<"query", "rows_affected">>
            /\ \A i \in 1..n :
                   ret.rows[i] = <<queries[i].text, queries[i].rowcount>>
            /\ Len(last.calls) = n + 3
            /\ last.calls[1].fn = "engine.begin"
            /\ \A i \in 1..n :
                   last.calls[i + 1] = Call("execute", queries[i].text)
            /\ last.calls[n + 2].fn = "commit"
            /\ CallCount(last.calls, "commit") = 1
            /\ committed = last.pre.committed
                   \cup UNION {Effects(queries[i]) : i \in 1..n}

\* Two different statements were committed together.
TwoStatementsCommitted ==
    /\ last.op = "transaction_query"
    /\ last.env.stage = "none"
    /\ Len(last.arg) = 2
    /\ last.arg[1] # last.arg[2]
    /\ Len(ret.rows) = 2
    /\ last.pre.committed = {}
    /\ Cardinality(committed) = 2

\* C5: read_sql never raises; when the read fails at the backend it returns
\* the frame with no rows and no columns, when it succeeds it returns the
\* backend's frame as is; params reaches the backend exactly when it is a
\* non-empty list, and then unchanged.
ReadSqlSwallowsErrors ==
    last.op = "read_sql" =>
        LET stmt == last.arg.stmt
            p == last.arg.params
            succeeded == last.env /\ stmt.returnsRows
        IN  /\ ret.kind = "frame"
            /\ succeeded => (ret.columns = stmt.keys /\ ret.rows = stmt.rows)
            /\ ~succeeded => (ret.columns = <<>> /\ ret.rows = <<>>)
            /\ Len(last.calls) = 1
            /\ last.calls[1].fn = "pd.read_sql_query"
            /\ last.calls[1].arg.sql = stmt.text
            /\ last.calls[1].arg.withParams <=> (~p.isNone /\ p.items # <<>>)
            /\ last.calls[1].arg.withParams => last.calls[1].arg.params = p.items

\* A read with an empty parameter list failed at the backend.
ReadFailedWithEmptyParams ==
    /\ last.op = "read_sql"
    /\ ~last.env
    /\ ~last.arg.params.isNone
    /\ last.arg.params.items = <<>>
    /\ ret = EmptyFrame

\* "after stripping leading whitespace and ignoring case, starts with SELECT",
\* stated on the characters of the text.
LowerOf(c) ==
    CASE c = "S" -> "s" [] c = "E" -> "e" [] c = "L" -> "l"
      [] c = "C" -> "c" [] c = "T" -> "t"
SelectAfterBlanks(text) ==
    \E k \in 0..Len(text) :
        /\ \A i \in 1..k : text[i] \in Whitespace
        /\ Len(text) >= k + Len(KwSelect)
        /\ \A i \in 1..Len(KwSelect) :
               text[k + i] \in {KwSelect[i], LowerOf(KwSelect[i])}

\* C6: a query in which nothing fails executes the one statement, commits
\* it, and returns the result's rows under the result's column names when the
\* text starts with SELECT (leading whitespace and case ignored), and the
\* one-row status 'success' record with the statement's rowcount otherwise.
QueryResultShape ==
    (/\ last.op = "query"
     /\ last.env = "none"
     /\ SelectAfterBlanks(last.arg.text) => last.arg.returnsRows) =>
        /\ CallCount(last.calls, "execute") = 1
        /\ last.calls[2] = Call("execute", last.arg.text)
        /\ last.calls[3].fn = "commit"
        /\ committed = last.pre.committed \cup Effects(last.arg)
        /\ ret.kind = "frame"
        /\ IF SelectAfterBlanks(last.arg.text)
           THEN /\ ret.columns = last.arg.keys
                /\ ret.rows = last.arg.rows
           ELSE /\ ret.columns = <<"status", "message", "rows_affected">>
                /\ Len(ret.rows) = 1
                /\ ret.rows[1][1] = "success"
                /\ ret.rows[1][3] = last.arg.rowcount

\* A lower-case select with leading whitespace returned its rows.
LowerCaseSelectReturnedRows ==
    /\ last.op = "query"
    /\ last.env = "none"
    /\ last.arg = SelectLower
    /\ ret.kind = "frame"
    /\ ret.columns = <<"a", "b">>
    /\ Len(ret.rows) = 2

\* C7: whenever query fails (opening the connection, executing, committing
\* or fetching), nothing of the statement is committed, nothing is raised and
\* the one-row status 'error' record is returned.
QueryErrorLeavesNothingCommitted ==
    (/\ last.op = "query"
     /\ \/ last.env \in QueryStages
        \/ (SelectAfterBlanks(last.arg.text) /\ ~last.arg.returnsRows)) =>
        /\ ret.kind # "raise"
        /\ IsErrorRecord(ret)
        /\ committed = last.pre.committed

\* C8: create_table and delete_table never raise: when nothing fails they
\* end holding an open connection, with the DDL committed and the status
\* 'success' record; when anything fails they return the status 'error'
\* record and leave the database unchanged.
DdlIsGuarded ==
    last.op \in {"create_table", "delete_table"} =>
        /\ ret.kind # "raise"
        /\ IsSuccessRecord(ret) \/ IsErrorRecord(ret)
        /\ IsSuccessRecord(ret) =>
              /\ Truthy(connection)
              /\ connection \in openConns
              /\ last.op = "create_table" => last.arg.table \in tables
              /\ last.op = "delete_table" => last.arg.table \notin tables
        /\ IsErrorRecord(ret) =>
              (committed = last.pre.committed /\ tables = last.pre.tables)

\* The operations that start with the spreadsheet_id check.
GuardedOps == {"read_sheet", "write_sheet", "append_sheet", "clear_sheet",
               "get_sheet_names", "create_sheet", "delete_sheet"}
SheetOps == GuardedOps \cup {"create_spreadsheet"}

\* C9: with no target document set (spreadsheet_id None or ""), read_sheet,
\* write_sheet, append_sheet, clear_sheet, get_sheet_names, create_sheet and
\* delete_sheet raise ValueError before any remote call and change nothing;
\* create_spreadsheet needs no target document and does not raise.
NoTargetRaisesPrecondition ==
    /\ (last.op \in GuardedOps /\ ~TruthyId(last.pre.spreadsheet_id)) =>
           /\ ret = Raises("ValueError")
           /\ last.calls = <<>>
           /\ Sheet = last.pre
    /\ (last.op \in GuardedOps /\ TruthyId(last.pre.spreadsheet_id)) =>
           /\ ret.kind # "raise"
           /\ Len(last.calls) >= 1
    /\ last.op = "create_spreadsheet" =>
           /\ ret.kind # "raise"
           /\ Len(last.calls) >= 1

\* An operation was tried with the empty string as the document id and raised.
OperationRaisedOnEmptyId ==
    /\ last.op = "delete_sheet"
    /\ last.pre.spreadsheet_id = PyStr(0)
    /\ ret = Raises("ValueError")

\* C9 as stated: with no target document set, every operation other than
\* set_spreadsheet_id, create_spreadsheet included, raises ValueError.
EveryOperationNeedsTarget ==
    (last.op \in SheetOps /\ ~TruthyId(last.pre.spreadsheet_id)) =>
        ret = Raises("ValueError")

\* The last remote call the operation made failed.
RemoteCallFailed ==
    /\ Len(last.calls) >= 1
    /\ last.env.outcomes[Len(last.calls)] # "ok"

IsFalse(r) == r.kind = "bool" /\ r.value = FALSE
IsEmptyList(r) == r.kind = "list" /\ r.value = <<>>
IsNone(r) == r.kind = "none"
IsErrorColumnFrame(r) ==
    r.kind = "frame" /\ r.columns = <<"error">> /\ Len(r.rows) = 1

\* C10: with a target document set no operation raises, and a failed remote
\* call (HttpError or any other exception) is turned into False by
\* write_sheet, append_sheet, clear_sheet, create_sheet and delete_sheet, into
\* [] by get_sheet_names, into None by create_spreadsheet, and into a one-row
\* frame with the single column "error" by read_sheet; with no target
\* document set every operation but create_spreadsheet raises ValueError,
\* and create_spreadsheet behaves as it does with one set.
RemoteFailureNeverRaises ==
    last.op \in SheetOps =>
        /\ TruthyId(last.pre.spreadsheet_id) => ret.kind # "raise"
        /\ (TruthyId(last.pre.spreadsheet_id) /\ RemoteCallFailed) =>
              CASE last.op = "read_sheet" -> IsErrorColumnFrame(ret)
                [] last.op = "get_sheet_names" -> IsEmptyList(ret)
                [] last.op = "create_spreadsheet" -> IsNone(ret)
                [] OTHER -> IsFalse(ret)
        /\ ~TruthyId(last.pre.spreadsheet_id) =>
              IF last.op = "create_spreadsheet"
              THEN /\ ret.kind # "raise"
                   /\ RemoteCallFailed => IsNone(ret)
              ELSE ret = Raises("ValueError")

\* The second remote call of delete_sheet failed with something other than
\* an HttpError, and delete_sheet returned False.
SecondCallFailedGaveFalse ==
    /\ last.op = "delete_sheet"
    /\ TruthyId(last.pre.spreadsheet_id)
    /\ Len(last.calls) = 2
    /\ last.env.outcomes[2] = "other"
    /\ IsFalse(ret)

\* C10 as stated: with a target set a failed remote call gives False, [] or
\* None in every operation, read_sheet included; with none set every
\* operation, create_spreadsheet included, raises ValueError.
RemoteFailureGivesFalseEmptyOrNone ==
    last.op \in SheetOps =>
        /\ (TruthyId(last.pre.spreadsheet_id) /\ RemoteCallFailed) =>
              IsFalse(ret) \/ IsEmptyList(ret) \/ IsNone(ret)
        /\ ~TruthyId(last.pre.spreadsheet_id) => ret = Raises("ValueError")

\* The cells of a returned row are those of the sheet's row followed by nulls
\* up to the header's length.
IsPaddedTo(row, source, n) ==
    /\ Len(row) = n
    /\ \A j \in 1..n :
         row[j] = IF j <= Len(source) THEN source[j] ELSE NoneCell

\* C11: whatever the sheet holds, read_sheet on a set target whose remote
\* read returns a non-empty range gives the first row as the header and the
\* remaining rows in order, each with exactly as many cells as the header: a
\* shorter row's cells followed by nulls.
ReadSheetPadsToHeaderLength ==
    (/\ last.op = "read_sheet"
     /\ TruthyId(last.pre.spreadsheet_id)
     /\ last.env.outcomes[1] = "ok"
     /\ last.env.values # <<>>)
    => /\ ret.kind = "frame"
       /\ ret.columns = last.env.values[1]
       /\ Len(ret.rows) = Len(last.env.values) - 1
       /\ \A i \in 1..Len(ret.rows) :
            IsPaddedTo(ret.rows[i], last.env.values[i + 1],
                       Len(last.env.values[1]))

\* The operations that return a tabular result.
TabularOps == {"read_sql", "query", "transaction_query", "create_table",
               "delete_table", "execute_query_file", "get_table_schema",
               "get_tables_schema", "read_sheet"}

\* execute_query_file's template was resolved and rendered: the read was made.
ReadWasMade == CallCount(last.calls, "pd.read_sql_query") = 1

\* The read that read_sql hands to pandas fails: the backend raises, or the
\* statement gives no rows to read.
ReadFails(stmt, ok) == ~ok \/ ~stmt.returnsRows

\* The last operation took a failure path: something it asked of the backend,
\* the template directory or the remote service failed or was refused.
FailurePath ==
    CASE last.op = "read_sql" -> ReadFails(last.arg.stmt, last.env)
      [] last.op = "query" ->
            \/ last.env # "none"
            \/ IsSelect(last.arg.text) /\ ~last.arg.returnsRows
      [] last.op = "transaction_query" -> last.env.stage # "none"
      [] last.op = "create_table" ->
            last.env # "none" \/ last.arg.table \in last.pre.tables
      [] last.op = "delete_table" ->
            last.env # "none" \/ last.arg.table \notin last.pre.tables
      [] last.op = "execute_query_file" ->
            \/ ~ReadWasMade
            \/ ReadFails(StatementFor(last.calls[Len(last.calls)].arg.sql),
                         last.env)
      [] last.op = "get_table_schema" ->
            \/ last.arg.table_name \notin last.pre.tables
            \/ last.arg.table_name \notin last.env.answers
      [] last.op = "get_tables_schema" ->
            ~last.env.ok \/ last.pre.tables \cap last.env.answers = {}
      [] last.op = "read_sheet" ->
            /\ TruthyId(last.pre.spreadsheet_id)
            /\ \/ last.env.outcomes[1] # "ok"
               \/ /\ last.env.values # <<>>
                  /\ TooLong(Tail(last.env.values), last.env.values[1])
      [] OTHER -> FALSE

ExposesStatusAndMessage(r) ==
    r.kind = "frame" /\ HasColumn(r, "status") /\ HasColumn(r, "message")

\* C12 (amended): a result returned on a failure path is a record with a status
\* and a message field when it comes from query, transaction_query,
\* create_table, delete_table, get_table_schema, get_tables_schema, or from
\* execute_query_file whose template could not be resolved or rendered; it is
\* the empty result, with no column at all, when it comes from read_sql or
\* from execute_query_file whose read failed; and it is the one-row result with
\* the single column "error" when it comes from read_sheet.
FailureResultShapes ==
    (FailurePath /\ ret.kind = "frame") =>
        CASE last.op = "read_sql" -> ret = EmptyFrame
          [] last.op = "read_sheet" -> IsErrorColumnFrame(ret)
          [] last.op = "execute_query_file" /\ ReadWasMade -> ret = EmptyFrame
          [] OTHER -> ExposesStatusAndMessage(ret) /\ Len(ret.rows) = 1

\* C12 witness: execute_query_file on a missing template file returned the
\* status record.
MissingTemplateGaveStatusRecord ==
    /\ last.op = "execute_query_file"
    /\ last.arg.query_name = <<"missing">>
    /\ jinja_env = Environment
    /\ ExposesStatusAndMessage(ret)
    /\ ret.rows[1][1] = "error"

\* C12: on every failure path of an operation that returns a tabular result,
\* the returned result has at least a status field and a message field.
FailureExposesStatusAndMessage ==
    (last.op \in TabularOps /\ FailurePath /\ ret.kind = "frame")
        => ExposesStatusAndMessage(ret)

\* The file a query name stands for: the name itself when its last part is the
\* extension, the name with the extension added otherwise.
FileOf(name) ==
    IF name[Len(name)] = ".sql" THEN name ELSE name \o <<".sql">>

\* The template file of the last get_query_from_file is there, compiles and
\* renders with the bindings given.
TemplateRenders ==
    /\ jinja_env = Environment
    /\ FileOf(last.arg.query_name) \in DOMAIN SqlDir
    /\ SqlDir[FileOf(last.arg.query_name)].compiles
    /\ ~RenderRaises(SqlDir[FileOf(last.arg.query_name)], last.arg.kwargs)

\* C13: get_query_from_file(name, **bindings) loads the file `name` with
\* ".sql" appended exactly when name does not end with it, from the directory
\* fixed at construction, renders it with exactly the bindings supplied and
\* returns the rendered text as it is; 'SELECT * WHERE age > {{min_age}}'
\* with min_age=18 gives 'SELECT * WHERE age > 18'.
GetQueryFromFileRenders ==
    (last.op = "get_query_from_file" /\ TemplateRenders) =>
        /\ last.calls = <<Call("get_template", FileOf(last.arg.query_name)),
                          Call("render", last.arg.kwargs)>>
        /\ ret = Returns("str",
                         RenderPieces(SqlDir[FileOf(last.arg.query_name)].pieces,
                                      last.arg.kwargs))
        /\ (/\ FileOf(last.arg.query_name) = <<"users_by_age", ".sql">>
            /\ last.arg.kwargs = <<Binding("min_age", IntValue(<<"1","8">>))>>)
           => ret.value = SelectByAge.text

\* C13 witness: the name without its extension and min_age=18 gave the text
\* ending in "> 18".
RenderedUsersByAge ==
    /\ last.op = "get_query_from_file"
    /\ last.arg.query_name = <<"users_by_age">>
    /\ last.arg.kwargs = <<Binding("min_age", IntValue(<<"1","8">>))>>
    /\ ret.kind = "str"
    /\ SubSeq(ret.value, Len(ret.value) - 3, Len(ret.value))
           = <<">", " ", "1", "8">>

\* C14: get_query_from_file raises ValueError, before looking anything up,
\* when the template directory did not exist at construction; with the
\* directory, FileNotFoundError when the template file is absent and
\* ValueError when the template does not compile or rendering throws; it
\* raises nothing else, and otherwise returns the text.
GetQueryFromFileErrors ==
    last.op = "get_query_from_file" =>
        /\ jinja_env = NoEnvironment =>
              ret = Raises("ValueError") /\ last.calls = <<>>
        /\ (/\ jinja_env = Environment
            /\ FileOf(last.arg.query_name) \notin DOMAIN SqlDir)
           => ret = Raises("FileNotFoundError")
        /\ (/\ jinja_env = Environment
            /\ FileOf(last.arg.query_name) \in DOMAIN SqlDir
            /\ ~TemplateRenders)
           => ret = Raises("ValueError")
        /\ ret.kind = "raise" => ret.exc \in {"FileNotFoundError", "ValueError"}
        /\ ret.kind = "str" <=> TemplateRenders

\* C14 witness: rendering threw (an attribute of an undefined name) and the
\* caller got ValueError.
RenderErrorRaisedValueError ==
    /\ last.op = "get_query_from_file"
    /\ jinja_env = Environment
    /\ last.arg.query_name = <<"user_profile">>
    /\ Len(last.calls) = 2
    /\ ret = Raises("ValueError")

\* C15: get_table_schema(name) on a table that exists and whose introspection
\* the backend answers returns the column metadata under the five columns
\* name, type, nullable, default, primary_key and a sixth column table_name
\* that holds name on every row.
TableSchemaIsNormalized ==
    (/\ last.op = "get_table_schema"
     /\ last.arg.table_name \in last.pre.tables
     /\ last.arg.table_name \in last.env.answers)
    => /\ ret.kind = "frame"
       /\ ret.columns = SchemaColumns \o <<"table_name">>
       /\ \A r \in 1..Len(ret.rows) : ret.rows[r][6] = last.arg.table_name

\* The listed tables whose schema can be retrieved, in listing order.
Retrievable == SelectSeq(Listing(last.pre.tables),
                         LAMBDA t : t \in last.env.answers)

\* The tables named by the rows of a schema result, in row order, each once.
RECURSIVE TablesOf(_)
TablesOf(rows) ==
    IF rows = <<>> THEN <<>>
    ELSE LET rest == TablesOf(Tail(rows))
         IN  IF rest # <<>> /\ Head(rest) = Head(rows)[6] THEN rest
             ELSE <<Head(rows)[6]>> \o rest

\* C16: get_tables_schema(), when the tables can be listed, goes through every
\* listed table; a table whose schema cannot be retrieved is skipped and the
\* others are still retrieved, so the result is the schemas of exactly the
\* retrievable tables, concatenated in listing order, and it is the status
\* 'warning' record only when no table's schema can be retrieved.
TablesSchemaConcatenatesRetrieved ==
    (last.op = "get_tables_schema" /\ last.env.ok) =>
        IF Retrievable = <<>>
        THEN /\ ExposesStatusAndMessage(ret)
             /\ ret.rows[1][1] = "warning"
        ELSE /\ ret.kind = "frame"
             /\ ret.columns = SchemaColumns \o <<"table_name">>
             /\ TablesOf(ret.rows) = Retrievable

\* What get_query_from_file gives for the arguments of the last
\* execute_query_file, and what read_sql gives for a rendered text.
Resolved ==
    get_query_from_file(last.pre, jinja_env, last.arg.query_name,
                        last.arg.kwargs)
ReadOf(text) == read_sql(last.pre, StatementFor(text), last.arg.params, last.env)

\* C19: execute_query_file(name, params, **bindings) never raises; when the
\* template is resolved and rendered, its result, its effect on the database
\* and its one read are those of read_sql on the rendered text and params;
\* when get_query_from_file raises (missing file, missing directory, template
\* error) it returns the one-row status 'error' record, makes no read and
\* leaves the database and the connection as they were.
ExecuteQueryFileNeverRaises ==
    last.op = "execute_query_file" =>
        /\ ret.kind = "frame"
        /\ Resolved.ret.kind = "str" =>
              /\ ret = ReadOf(Resolved.ret.value).ret
              /\ Db = ReadOf(Resolved.ret.value).db
              /\ ReadWasMade
              /\ last.calls[Len(last.calls)].arg.sql = Resolved.ret.value
        /\ Resolved.ret.kind = "raise" =>
              /\ IsErrorRecord(ret)
              /\ CallCount(last.calls, "pd.read_sql_query") = 0
              /\ Db = last.pre

\* C19 witness: with no template directory, execute_query_file returned the
\* error record and read nothing.
NoDirectoryGaveErrorRecord ==
    /\ last.op = "execute_query_file"
    /\ jinja_env = NoEnvironment
    /\ IsErrorRecord(ret)
    /\ last.calls = <<>>

\* The operations that take a connection of their own from the engine.
EngineOps == {"read_sql", "query", "transaction_query"}

\* C17 (amended): a Database instance holds at most one connection of its own
\* (Database.connection), and between operations that is the only live one;
\* create_table and delete_table work on it alone; inside read_sql, query and
\* transaction_query one more connection is taken from the engine and closed
\* before the operation returns, so that with a connection held two are live
\* at once, and never more than two.
OneHeldAndOneTransientConnection ==
    /\ Cardinality(openConns) <= 1
    /\ openConns = IF Truthy(connection) THEN {connection} ELSE {}
    /\ peakLive <= 2
    /\ last.op \in EngineOps =>
          peakLive <= Cardinality(last.pre.openConns) + 1
    /\ last.op \notin EngineOps => peakLive <= 1

\* C17 witness: query() ran while connect() had a connection open, and two
\* connections were live inside it.
QueryRanBesideHeldConnection ==
    /\ last.op = "query"
    /\ Truthy(last.pre.connection)
    /\ last.env = "none"
    /\ peakLive = 2
    /\ openConns = {connection}

\* C17: at no point, the points inside query, read_sql, transaction_query,
\* create_table and delete_table included, is more than one backend
\* connection of the instance live.
AtMostOneLiveConnection == peakLive <= 1

\* The operations that open Database.connection when none is held.
OpeningOps == {"connect", "create_table", "delete_table"}

\* C18 (amended): a freshly constructed Database or BigQuery instance holds no
\* connection, a freshly constructed Postgresql instance holds the one its
\* constructor opened; after construction, an instance that holds none gets
\* one only through connect(), create_table or delete_table, and no other
\* operation asks the engine for a connection to hold.
ConnectionOpenedLazilyButForPostgresql ==
    scope # "spreadsheet" =>
        /\ last.op = "__init__" =>
              /\ Truthy(connection) <=> variant = "Postgresql"
              /\ openConns = IF variant = "Postgresql" THEN {connection} ELSE {}
        /\ (/\ last.op # "__init__"
            /\ \/ ~Truthy(last.pre.connection) /\ Truthy(connection)
               \/ engineConnects # last.pre.engineConnects)
           => /\ last.op \in OpeningOps
              /\ ~Truthy(last.pre.connection)
              /\ engineConnects = last.pre.engineConnects + 1

\* C18 witness: create_table was the first operation to need a connection on
\* an instance that held none, and opened it.
CreateTableOpenedTheConnection ==
    /\ last.op = "create_table"
    /\ ~Truthy(last.pre.connection)
    /\ last.pre.engineConnects = 0
    /\ Truthy(connection)
    /\ openConns = {connection}

\* C18: a freshly constructed instance, base class or variant, holds no open
\* connection, and one is opened only when connect(), create_table or
\* delete_table is called.
ConnectionOpenedLazily ==
    scope # "spreadsheet" =>
        /\ last.op = "__init__" => ~Truthy(connection) /\ openConns = {}
        /\ (/\ last.op # "__init__"
            /\ ~Truthy(last.pre.connection)
            /\ Truthy(connection))
           => last.op \in OpeningOps

\* The 2-D list handed to the remote call of the last write or append.
SentValues == last.calls[1].arg.values

\* Whether the last write or append was to include the header: as passed,
\* and when left out, yes for write_sheet and no for append_sheet.
HeaderWanted ==
    CASE last.arg.include_header = "True" -> TRUE
      [] last.arg.include_header = "False" -> FALSE
      [] OTHER -> last.op = "write_sheet"

\* C20: with a target document set, write_sheet and append_sheet make exactly
\* one remote call (values.update / values.append) whose 2-D list has the
\* column names as its first row exactly when include_header is true (left
\* out: true for write_sheet, false for append_sheet), then one list per data
\* row in row order, rows + 1 or rows entries in all; they return True when
\* that call succeeds and False when it fails.
SheetValuesSerialized ==
    (/\ last.op \in {"write_sheet", "append_sheet"}
     /\ TruthyId(last.pre.spreadsheet_id))
    => LET rows == last.arg.df.rows
           shift == IF HeaderWanted THEN 1 ELSE 0
       IN  /\ Len(last.calls) = 1
           /\ last.calls[1].fn = IF last.op = "write_sheet"
                                 THEN "values.update" ELSE "values.append"
           /\ Len(SentValues) = Len(rows) + shift
           /\ HeaderWanted => SentValues[1] = last.arg.df.columns
           /\ \A i \in 1..Len(rows) : SentValues[i + shift] = rows[i]
           /\ ret = Bool(last.env.outcomes[1] = "ok")

\* C20 witness: append_sheet with include_header left out sent the two data
\* rows and nothing else, and returned True.
AppendedTwoRowsWithoutHeader ==
    /\ last.op = "append_sheet"
    /\ last.arg.include_header = "omitted"
    /\ TruthyId(last.pre.spreadsheet_id)
    /\ Len(last.arg.df.rows) = 2
    /\ SentValues = last.arg.df.rows
    /\ ret = Bool(TRUE)

\* C21: the target document id is the constructor's argument after
\* construction and the argument of set_spreadsheet_id after that call; every
\* other operation, whether it returns a value, fails remotely or raises,
\* leaves it as it was; a create_spreadsheet that returns the new id has not
\* made it the target; set_spreadsheet_id("") leaves no target document set.
TargetChangesOnlyBySetter ==
    scope = "spreadsheet" =>
        /\ last.op \in {"__init__", "set_spreadsheet_id"} =>
              spreadsheet_id = last.arg
        /\ last.op \notin {"__init__", "set_spreadsheet_id"} =>
              spreadsheet_id = last.pre.spreadsheet_id
        /\ (last.op = "create_spreadsheet" /\ ret.kind = "str") =>
              spreadsheet_id # ret.value
        /\ (last.op = "set_spreadsheet_id" /\ last.arg = PyStr(0)) =>
              ~TruthyId(spreadsheet_id)

\* C21 witness: create_spreadsheet on an instance with no target returned the
\* new document's id and the instance still has no target.
CreatedDocumentIsNotTheTarget ==
    /\ last.op = "create_spreadsheet"
    /\ ret.kind = "str"
    /\ last.pre.spreadsheet_id = NoId
    /\ spreadsheet_id = NoId

\* C22: read_sql, query, transaction_query, list_tables and execute_query_file
\* leave the instance's own connection as it was, whether they succeed or
\* fail: the handle held is the same, the set of open handles is the same,
\* connect() opened none, close() closed none, and no backend call was made on
\* Database.connection; a disconnected instance is still disconnected and a
\* connected one still holds the same open handle.
OwnConnectionOps ==
    {"read_sql", "query", "transaction_query", "list_tables",
     "execute_query_file"}
OnOwnConnection(call) ==
    call.fn \in {"connection.execute", "connection.commit",
                 "connection.rollback", "connection.close"}
OwnConnectionLeftAlone ==
    (scope # "spreadsheet" /\ last.op \in OwnConnectionOps) =>
        /\ connection = last.pre.connection
        /\ openConns = last.pre.openConns
        /\ engineConnects = last.pre.engineConnects
        /\ closeCalls = last.pre.closeCalls
        /\ \A i \in 1..Len(last.calls) : ~OnOwnConnection(last.calls[i])
        /\ ~Truthy(last.pre.connection) => ~Truthy(connection)
        /\ Truthy(last.pre.connection) =>
              (last.pre.connection \in last.pre.openConns
                  => connection \in openConns)

\* C22 witness: a transaction_query that failed on a connected instance, which
\* still holds the same open handle.
FailedTransactionKeptTheHandle ==
    /\ scope = "database"
    /\ last.op = "transaction_query"
    /\ ret = TxnError
    /\ Truthy(last.pre.connection)
    /\ connection = last.pre.connection
    /\ connection \in openConns

\* C23: create_spreadsheet(title, names) with N >= 1 names issues exactly one
\* create request, first, whose only sheet is names[0]; once the document
\* exists it issues, exactly when N > 1, one batch request on the new document
\* with the N - 1 addSheet entries for names[1..] in order, and nothing else;
\* it returns the new document's id iff every request it issued succeeded and
\* None otherwise; the document exists as soon as the create request
\* succeeded, so also when a failed batch request made the result None.
AddSheetEntries(names) ==
    [i \in 1..(Len(names) - 1) |-> <<"addSheet", names[i + 1]>>]
AllIssuedSucceeded(calls, outcomes) ==
    \A i \in 1..Len(calls) : outcomes[i] = "ok"
CreateSpreadsheetRequests ==
    (scope = "spreadsheet" /\ last.op = "create_spreadsheet"
        /\ Len(last.arg.names) >= 1) =>
        LET names == last.arg.names
            outcomes == last.env.outcomes
            created == NewDocId(last.pre.docs + 1)
        IN  /\ CallCount(last.calls, "spreadsheets.create") = 1
            /\ last.calls[1] =
                  Call("spreadsheets.create",
                       [title |-> last.arg.title, sheets |-> <<names[1]>>])
            /\ Len(last.calls) =
                  IF outcomes[1] = "ok" /\ Len(names) > 1 THEN 2 ELSE 1
            /\ Len(last.calls) = 2 =>
                  /\ last.calls[2] =
                        Call("batchUpdate",
                             [spreadsheetId |-> created,
                              requests |-> AddSheetEntries(names)])
                  /\ Len(last.calls[2].arg.requests) = Len(names) - 1
            /\ IF AllIssuedSucceeded(last.calls, outcomes)
               THEN ret = Returns("str", created)
               ELSE IsNone(ret)
            /\ docs = IF outcomes[1] = "ok" THEN last.pre.docs + 1
                      ELSE last.pre.docs

\* C23 witness: three names, the create request succeeded and the batch
\* request failed: the result is None and the document exists.
NoneAfterFailedBatchButDocumentCreated ==
    /\ scope = "spreadsheet"
    /\ last.op = "create_spreadsheet"
    /\ Len(last.arg.names) = 3
    /\ Len(last.calls) = 2
    /\ last.env.outcomes[1] = "ok"
    /\ last.env.outcomes[2] # "ok"
    /\ IsNone(ret)
    /\ docs = last.pre.docs + 1

====
